---- MODULE Spec2Model ----
(***************************************************************************)
(* Model of the domain availability checker (dist/domain-checker.js):      *)
(* parseDomain, the DNS and WHOIS probes with their timeout races, the     *)
(* WHOIS text classifier, the reconciliation in checkDomain and the batch  *)
(* loop of checkAlternativeTlds.                                           *)
(*                                                                         *)
(* Strings that the code takes apart (domains, TLDs, WHOIS text) are       *)
(* sequences: a domain is a sequence of one-character strings, a WHOIS     *)
(* text is a sequence of lines and a line a sequence of tokens.  Strings   *)
(* the code only passes along (messages, details) are TLA+ strings.        *)
(***************************************************************************)
EXTENDS Integers, Sequences, FiniteSets, TLC

(* ------------------------------ bounds --------------------------------- *)

\* longest domain string handed to checkDomain
MaxDomainLen == 3

\* longest TLD list handed to checkAlternativeTlds
MaxTlds == 3

\* largest concurrency option
MaxConc == 3

\* most lines in a WHOIS response body
MaxLines == 2

(* --------------------------- JavaScript values ------------------------- *)

\* the value undefined (an absent property)
UNDEF == "<undefined>"

\* JavaScript truthiness of a string-or-undefined value, as in `if (x.error)`
Truthy(v) == v # UNDEF /\ v # ""

(* ------------------------------ parseDomain ---------------------------- *)

\* the characters domain strings are built from
DomainChars == {"a", "A", ".", " "}

\* String.prototype.toLowerCase on one character
LowerChar(c) == IF c = "A" THEN "a" ELSE c

\* String.prototype.toLowerCase
toLowerCase(s) == [i \in 1..Len(s) |-> LowerChar(s[i])]

RECURSIVE trimStart(_)
trimStart(s) ==
    IF s # <<>> /\ Head(s) = " " THEN trimStart(Tail(s)) ELSE s

RECURSIVE trimEnd(_)
trimEnd(s) ==
    IF s # <<>> /\ s[Len(s)] = " " THEN trimEnd(SubSeq(s, 1, Len(s) - 1)) ELSE s

\* String.prototype.trim
trim(s) == trimEnd(trimStart(s))

\* String.prototype.split(sep): the pieces between the separators, always
\* at least one piece (the empty string splits into one empty piece)
RECURSIVE split(_, _)
split(s, sep) ==
    IF \A i \in 1..Len(s) : s[i] # sep
    THEN <<s>>
    ELSE LET k == CHOOSE i \in 1..Len(s) :
                      s[i] = sep /\ \A j \in 1..(i - 1) : s[j] # sep
         IN  <<SubSeq(s, 1, k - 1)>> \o split(SubSeq(s, k + 1, Len(s)), sep)

\* Array.prototype.join(sep)
RECURSIVE join(_, _)
join(parts, sep) ==
    IF parts = <<>> THEN <<>>
    ELSE IF Len(parts) = 1 THEN parts[1]
    ELSE parts[1] \o <<sep>> \o join(Tail(parts), sep)

\* parseDomain with the length test dropped: a string without a dot parses
\* to an empty name and itself as TLD
parseDomainNoCheck(domain) ==
    LET parts == split(trim(toLowerCase(domain)), ".")
    IN  [ok |-> TRUE,
         name |-> join(SubSeq(parts, 1, Len(parts) - 1), "."),
         tld |-> parts[Len(parts)]]

\* parseDomain: ok = FALSE stands for the thrown "Invalid domain format"
parseDomain(domain) ==
    LET parts == split(trim(toLowerCase(domain)), ".")
    IN  IF Len(parts) < 2
        THEN [ok |-> FALSE, name |-> <<>>, tld |-> <<>>]
        ELSE [ok |-> TRUE,
              name |-> join(SubSeq(parts, 1, Len(parts) - 1), "."),
              tld |-> parts[Len(parts)]]

\* `${name}.${tld}`
fullDomain(p) == p.name \o <<".">> \o p.tld

(* --------------------- WHOIS text and the pattern tests ---------------- *)

\* the line break between two lines of a WHOIS body
NL == "<nl>"

\* lines a WHOIS body is made of, as the registries write them (mixed case)
WhoisLines ==
    { <<"No", "match", "for", "domain">>,
      <<"Registrar:", "Example", "Corp">>,
      <<"Domain", "Name:">>,
      <<"example.com">>,
      <<"Status:">>,
      <<"free">>,
      <<"ACTIVE">> }

RECURSIVE SeqsUpTo(_, _)
\* all sequences over S of length at most n
SeqsUpTo(S, n) ==
    IF n = 0 THEN {<<>>}
    ELSE LET shorter == SeqsUpTo(S, n - 1)
         IN  shorter \cup {Append(t, x) : t \in shorter, x \in S}

\* the WHOIS bodies of the model
WhoisTexts == SeqsUpTo(WhoisLines, MaxLines)

\* what the promisified whois.lookup can resolve with
WhoisValues ==
    {[type |-> "string", text |-> t] : t \in WhoisTexts}
        \cup {[type |-> "undefined", text |-> <<>>]}

\* typeof result === "string" ? result : String(result)
whoisDataOf(result) ==
    IF result.type = "string" THEN result.text ELSE << <<"undefined">> >>

RECURSIVE tokenStream(_)
\* the body as one stream of tokens, lines separated by NL
tokenStream(text) ==
    IF text = <<>> THEN <<>>
    ELSE IF Len(text) = 1 THEN text[1]
    ELSE text[1] \o <<NL>> \o tokenStream(Tail(text))

\* the i flag: tokens are compared in lower case
LowerTok(t) ==
    CASE t = "No" -> "no"
      [] t = "Registrar:" -> "registrar:"
      [] t = "Domain" -> "domain"
      [] t = "Name:" -> "name:"
      [] t = "Status:" -> "status:"
      [] t = "ACTIVE" -> "active"
      [] OTHER -> t

\* pattern items that are not literal tokens
WS == "\\s*"
DOTPLUS == ".+"
BOL == "^"
EOL == "$"

RECURSIVE matchFrom(_, _, _)
\* the pattern pat matches the stream from position k on
matchFrom(stream, k, pat) ==
    IF pat = <<>> THEN TRUE
    ELSE LET item == Head(pat)
             rest == Tail(pat)
         IN  CASE item = WS ->
                    \/ matchFrom(stream, k, rest)
                    \/ /\ k <= Len(stream)
                       /\ stream[k] = NL
                       /\ matchFrom(stream, k + 1, pat)
               [] item = DOTPLUS ->
                    /\ k <= Len(stream)
                    /\ stream[k] # NL
                    /\ \/ matchFrom(stream, k + 1, rest)
                       \/ matchFrom(stream, k + 1, pat)
               [] item = BOL ->
                    /\ (k = 1 \/ stream[k - 1] = NL)
                    /\ matchFrom(stream, k, rest)
               [] item = EOL ->
                    /\ (k = Len(stream) + 1 \/ stream[k] = NL)
                    /\ matchFrom(stream, k, rest)
               [] OTHER ->
                    /\ k <= Len(stream)
                    /\ LowerTok(stream[k]) = item
                    /\ matchFrom(stream, k + 1, rest)

\* RegExp.prototype.test
test(pat, text) ==
    LET stream == tokenStream(text)
    IN  \E k \in 1..(Len(stream) + 1) : matchFrom(stream, k, pat)

\* patterns indicating that the domain is available
availablePatterns ==
    << <<"no", "match">>,
       <<"not", "found">>,
       <<"no", "data", "found">>,
       <<"no", "entries", "found">>,
       <<"status:", WS, "free">>,
       <<"status:", WS, "available">>,
       <<"domain", "not", "found">>,
       <<"no", "object", "found">>,
       <<"nothing", "found">>,
       <<BOL, "%", "no", "match", EOL>> >>

\* patterns indicating that the domain is taken
takenPatterns ==
    << <<"domain", "name:", WS, DOTPLUS>>,
       <<"registrar:">>,
       <<"creation", "date:">>,
       <<"registered", "on:">>,
       <<"status:", WS, "active">>,
       <<"status:", WS, "ok">>,
       <<"name", "server:">>,
       <<"registrant:">> >>

\* patterns.some((pattern) => pattern.test(whoisData))
some(patterns, text) == \E i \in 1..Len(patterns) : test(patterns[i], text)

\* the classification with the first test weakened to isAvailable alone
classifyAvailableFirst(whoisData) ==
    LET isAvailable == some(availablePatterns, whoisData)
        isTaken == some(takenPatterns, whoisData)
    IN  IF isAvailable
        THEN [available |-> TRUE,
              details |-> "WHOIS shows domain is not registered",
              error |-> UNDEF]
        ELSE IF isTaken
        THEN [available |-> FALSE,
              details |-> "WHOIS shows domain is registered",
              error |-> UNDEF]
        ELSE [available |-> FALSE,
              details |-> "WHOIS result ambiguous, assuming taken",
              error |-> UNDEF]

\* checkWhois, the try block after the lookup returned: the classification
classifyWhois(whoisData) ==
    LET isAvailable == some(availablePatterns, whoisData)
        isTaken == some(takenPatterns, whoisData)
    IN  IF isAvailable /\ ~isTaken
        THEN [available |-> TRUE,
              details |-> "WHOIS shows domain is not registered",
              error |-> UNDEF]
        ELSE IF isTaken
        THEN [available |-> FALSE,
              details |-> "WHOIS shows domain is registered",
              error |-> UNDEF]
        ELSE [available |-> FALSE,
              details |-> "WHOIS result ambiguous, assuming taken",
              error |-> UNDEF]

(* ------------------------------ the probes ----------------------------- *)

\* program constants: the timeouts of the two probes, in milliseconds
WHOIS_TIMEOUT_MS == 10000
DNS_TIMEOUT_MS == 5000

\* what a withTimeout race has settled with; kind "none" while it is pending
NoRaw == [kind |-> "none", code |-> UNDEF, message |-> UNDEF]
OkRaw == [kind |-> "ok", code |-> UNDEF, message |-> UNDEF]
ErrRaw(code, message) == [kind |-> "err", code |-> code, message |-> message]

\* the rejection values of the promisified dns.resolve: resolver errors with
\* their code, an Error with an empty message, and a truthy value that is
\* no Error (it has neither code nor message)
DnsRejections ==
    { ErrRaw("ENOTFOUND", "queryA ENOTFOUND"),
      ErrRaw("ENODATA", "queryA ENODATA"),
      ErrRaw("ESERVFAIL", "queryA ESERVFAIL"),
      ErrRaw("ECONNREFUSED", "queryA ECONNREFUSED"),
      ErrRaw(UNDEF, ""),
      ErrRaw(UNDEF, UNDEF) }

\* the rejection values of the promisified whois.lookup
WhoisRejections ==
    { ErrRaw("ECONNREFUSED", "connect ECONNREFUSED"),
      ErrRaw(UNDEF, "lookup: timeout"),
      ErrRaw(UNDEF, ""),
      ErrRaw(UNDEF, UNDEF) }

\* withTimeout: what the timer rejects the race with
timeoutError(errorMsg) == ErrRaw(UNDEF, errorMsg)

\* the promise of a probe before it has settled
PendingDns == [state |-> "pending", exists |-> FALSE, error |-> UNDEF]
PendingWhois ==
    [state |-> "pending", available |-> FALSE, details |-> UNDEF, error |-> UNDEF]

\* checkDns with a catch block that rethrows what is not a clean negative
checkDnsRethrow(raw) ==
    IF raw.kind = "ok"
    THEN [state |-> "fulfilled", exists |-> TRUE, error |-> UNDEF]
    ELSE IF raw.code = "ENOTFOUND" \/ raw.code = "ENODATA"
    THEN [state |-> "fulfilled", exists |-> FALSE, error |-> UNDEF]
    ELSE [state |-> "rejected", exists |-> FALSE, error |-> raw.message]

\* checkDns, from the settled race on: the promise the probe returns
checkDns(raw) ==
    IF raw.kind = "ok"
    THEN [state |-> "fulfilled", exists |-> TRUE, error |-> UNDEF]
    ELSE IF raw.code = "ENOTFOUND" \/ raw.code = "ENODATA"
    THEN [state |-> "fulfilled", exists |-> FALSE, error |-> UNDEF]
    ELSE IF raw.message = "DNS lookup timed out"
    THEN [state |-> "fulfilled", exists |-> FALSE, error |-> "timeout"]
    ELSE [state |-> "fulfilled", exists |-> FALSE, error |-> raw.message]

\* checkWhois, from the settled race on; value is what the lookup resolved
\* with when the race was won by the lookup
checkWhois(raw, value) ==
    IF raw.kind = "ok"
    THEN [state |-> "fulfilled"] @@ classifyWhois(whoisDataOf(value))
    ELSE [state |-> "fulfilled", available |-> FALSE, details |-> UNDEF,
          error |-> raw.message]

(* ---------------------- checkDomain: the reconciliation ---------------- *)

\* the verdict part of a DomainCheckResult; error is the template literal's
\* pieces, <<>> when the result has no error property
Verdict(available, method, confidence, details, error) ==
    [available |-> available, method |-> method, confidence |-> confidence,
     details |-> details, error |-> error]

\* the branch for two failed probes
bothFailed(d, w) ==
    Verdict(FALSE, "both", "low", "Both DNS and WHOIS checks failed",
            <<"DNS: ", d.error, ", WHOIS: ", w.error>>)

\* the both-succeeded branch with its third test dropped: a DNS record next
\* to a WHOIS "available" falls through to the WHOIS reading
bothSucceededTrustWhois(d, w) ==
    IF ~d.exists /\ w.available
    THEN Verdict(TRUE, "both", "high",
                 "No DNS records and WHOIS shows available", <<>>)
    ELSE IF d.exists /\ ~w.available
    THEN Verdict(FALSE, "both", "high",
                 "DNS records exist and WHOIS shows registered", <<>>)
    ELSE IF ~w.available
    THEN Verdict(FALSE, "both", "medium",
                 "No DNS but WHOIS shows registered (domain may be parked)", <<>>)
    ELSE Verdict(TRUE, "both", "medium", w.details, <<>>)

\* the both-succeeded branch with the parked case rated high
bothSucceededParkedHigh(d, w) ==
    IF ~d.exists /\ w.available
    THEN Verdict(TRUE, "both", "high",
                 "No DNS records and WHOIS shows available", <<>>)
    ELSE IF d.exists /\ ~w.available
    THEN Verdict(FALSE, "both", "high",
                 "DNS records exist and WHOIS shows registered", <<>>)
    ELSE IF d.exists
    THEN Verdict(FALSE, "both", "high",
                 "DNS records exist (domain is active)", <<>>)
    ELSE IF ~w.available
    THEN Verdict(FALSE, "both", "high",
                 "No DNS but WHOIS shows registered (domain may be parked)", <<>>)
    ELSE Verdict(TRUE, "both", "medium", w.details, <<>>)

\* the both-succeeded branch without its first case, so that no record next
\* to an available WHOIS verdict runs into the final else
bothSucceededNoAgreement(d, w) ==
    IF d.exists /\ ~w.available
    THEN Verdict(FALSE, "both", "high",
                 "DNS records exist and WHOIS shows registered", <<>>)
    ELSE IF d.exists
    THEN Verdict(FALSE, "both", "high",
                 "DNS records exist (domain is active)", <<>>)
    ELSE IF ~w.available
    THEN Verdict(FALSE, "both", "medium",
                 "No DNS but WHOIS shows registered (domain may be parked)", <<>>)
    ELSE Verdict(TRUE, "both", "medium", w.details, <<>>)

\* the branch for two probes without error
bothSucceeded(d, w) ==
    IF ~d.exists /\ w.available
    THEN Verdict(TRUE, "both", "high",
                 "No DNS records and WHOIS shows available", <<>>)
    ELSE IF d.exists /\ ~w.available
    THEN Verdict(FALSE, "both", "high",
                 "DNS records exist and WHOIS shows registered", <<>>)
    ELSE IF d.exists
    THEN Verdict(FALSE, "both", "high",
                 "DNS records exist (domain is active)", <<>>)
    ELSE IF ~w.available
    THEN Verdict(FALSE, "both", "medium",
                 "No DNS but WHOIS shows registered (domain may be parked)", <<>>)
    ELSE Verdict(TRUE, "both", "medium", w.details, <<>>)

\* the only-WHOIS branch with the WHOIS verdict negated
onlyWhoisNegated(d, w) == Verdict(~w.available, "whois", "medium", w.details, <<>>)

\* the only-WHOIS branch reporting both methods
onlyWhoisAsBoth(d, w) == Verdict(w.available, "both", "medium", w.details, <<>>)

\* the branch for a failed DNS probe and a working WHOIS probe
onlyWhois(d, w) == Verdict(w.available, "whois", "medium", w.details, <<>>)

\* the only-DNS branch with a fixed medium confidence
onlyDnsMedium(d, w) ==
    Verdict(~d.exists, "dns", "medium",
            IF d.exists THEN "DNS records exist"
            ELSE "No DNS records found (may still be registered but inactive)",
            <<>>)

\* the branch for a working DNS probe and a failed WHOIS probe
onlyDns(d, w) ==
    Verdict(~d.exists, "dns", IF d.exists THEN "high" ELSE "medium",
            IF d.exists THEN "DNS records exist"
            ELSE "No DNS records found (may still be registered but inactive)",
            <<>>)

\* the reconciliation with the both-failed test turned into an or
reconcileEitherFailed(d, w) ==
    IF Truthy(d.error) \/ Truthy(w.error) THEN bothFailed(d, w)
    ELSE bothSucceeded(d, w)

\* checkDomain after the await: the verdict for the two probe outcomes
reconcile(d, w) ==
    IF Truthy(d.error) /\ Truthy(w.error) THEN bothFailed(d, w)
    ELSE IF ~Truthy(d.error) /\ ~Truthy(w.error) THEN bothSucceeded(d, w)
    ELSE IF Truthy(d.error) THEN onlyWhois(d, w)
    ELSE onlyDns(d, w)

\* the DomainCheckResult checkDomain resolves with
checkResult(p, d, w) ==
    [domain |-> fullDomain(p), tld |-> p.tld] @@ reconcile(d, w)

\* the result variable before checkDomain has resolved
NoResult ==
    [domain |-> <<>>, tld |-> <<>>] @@ Verdict(FALSE, "none", "none", UNDEF, <<>>)

(* ------------------------- one checkDomain call ------------------------ *)

VARIABLES
    domain,      \* the argument of checkDomain
    pc,          \* "start", "awaiting" (at the await), "resolved", "rejected"
    thrown,      \* the message checkDomain rejected with, "" if none
    dnsOp,       \* the resolver query: "idle", "pending", "done"
    dnsTimer,    \* the timer of the DNS race: "idle", "armed", "fired"
    dnsRaw,      \* what the DNS race settled with
    dnsResult,   \* the promise checkDns returned
    whoisOp,     \* the WHOIS lookup: "idle", "pending", "done"
    whoisTimer,  \* the timer of the WHOIS race
    whoisRaw,    \* what the WHOIS race settled with
    whoisResult, \* the promise checkWhois returned
    result,      \* the DomainCheckResult
    settledFirst \* which probe settled first: "none", "dns", "whois"

checkVars ==
    <<domain, pc, thrown, dnsOp, dnsTimer, dnsRaw, dnsResult,
      whoisOp, whoisTimer, whoisRaw, whoisResult, result, settledFirst>>

VARIABLES
    lookupValue, \* classifier model: what whois.lookup resolved with
    whoisClass   \* classifier model: what checkWhois returned for it

classVars == <<lookupValue, whoisClass>>

VARIABLES
    bName,    \* batch model: the domainName argument
    bTlds,    \* the tlds argument
    bConc,    \* options.concurrency
    bPc,      \* "call", "window" (at the await of Promise.all), "sleep",
              \* "done", "rejected"
    bI,       \* the loop variable i
    bStart,   \* the index in tlds of the first TLD of the current batch
    bSlots,   \* the checkDomain promises of the current batch, in batch order
    bProbes,  \* per index of tlds, what the probes of its check ended with
    bResults, \* results
    bWindows, \* how many batches were started
    bSleeps   \* how many times sleep(batchDelay) was called

batchVars ==
    <<bName, bTlds, bConc, bPc, bI, bStart, bSlots, bProbes, bResults,
      bWindows, bSleeps>>

\* the batch model at rest
BatchIdle ==
    /\ bName = <<>> /\ bTlds = <<>> /\ bConc = 1
    /\ bPc = "call" /\ bI = 0 /\ bStart = 0
    /\ bSlots = <<>> /\ bProbes = <<>> /\ bResults = <<>>
    /\ bWindows = 0 /\ bSleeps = 0

\* the classifier model at rest
ClassIdle ==
    /\ lookupValue = [type |-> "undefined", text |-> <<>>]
    /\ whoisClass = PendingWhois

\* the WHOIS answers of the single-check model: one body per class (only an
\* available-pattern, only a taken-pattern, both, neither) and no body
LookupValues ==
    { [type |-> "string", text |-> << <<"No", "match", "for", "domain">> >>],
      [type |-> "string", text |-> << <<"Registrar:", "Example", "Corp">> >>],
      [type |-> "string", text |-> << <<"No", "match", "for", "domain">>,
                                      <<"Registrar:", "Example", "Corp">> >>],
      [type |-> "string", text |-> << <<"example.com">> >>],
      [type |-> "undefined", text |-> <<>>] }

\* the strings checkDomain is called with
Domains == SeqsUpTo(DomainChars, MaxDomainLen)

CheckInit ==
    /\ ClassIdle
    /\ BatchIdle
    /\ domain \in Domains
    /\ pc = "start"
    /\ thrown = ""
    /\ dnsOp = "idle" /\ dnsTimer = "idle"
    /\ dnsRaw = NoRaw /\ dnsResult = PendingDns
    /\ whoisOp = "idle" /\ whoisTimer = "idle"
    /\ whoisRaw = NoRaw /\ whoisResult = PendingWhois
    /\ result = NoResult
    /\ settledFirst = "none"

\* checkDomain up to its await: parseDomain, then both probes are started
\* (each starts its operation and arms its timer)
CheckDomainCall ==
    /\ pc = "start"
    /\ IF parseDomain(domain).ok
       THEN /\ pc' = "awaiting"
            /\ dnsOp' = "pending" /\ dnsTimer' = "armed"
            /\ whoisOp' = "pending" /\ whoisTimer' = "armed"
            /\ UNCHANGED thrown
       ELSE /\ pc' = "rejected"
            /\ thrown' = "Invalid domain format"
            /\ UNCHANGED <<dnsOp, dnsTimer, whoisOp, whoisTimer>>
    /\ UNCHANGED <<domain, dnsRaw, dnsResult, whoisRaw, whoisResult, result,
                   settledFirst>>
    /\ UNCHANGED <<classVars, batchVars>>

\* the DNS probe has settled
DnsSettled == dnsResult.state # "pending"

\* the WHOIS probe has settled
WhoisSettled == whoisResult.state # "pending"

\* the DNS race settles with raw unless it has settled before; checkDns
\* resumes in the same turn
SettleDns(raw) ==
    IF dnsRaw.kind = "none"
    THEN /\ dnsRaw' = raw /\ dnsResult' = checkDns(raw)
         /\ settledFirst' = (IF WhoisSettled THEN settledFirst ELSE "dns")
    ELSE UNCHANGED <<dnsRaw, dnsResult, settledFirst>>

\* the WHOIS race settles with raw unless it has settled before
SettleWhois(raw, value) ==
    IF whoisRaw.kind = "none"
    THEN /\ whoisRaw' = raw /\ whoisResult' = checkWhois(raw, value)
         /\ settledFirst' = (IF DnsSettled THEN settledFirst ELSE "whois")
    ELSE UNCHANGED <<whoisRaw, whoisResult, settledFirst>>

\* the resolver answers with records
DnsResolves ==
    /\ dnsOp = "pending"
    /\ dnsOp' = "done"
    /\ SettleDns(OkRaw)
    /\ UNCHANGED <<domain, pc, thrown, dnsTimer,
                   whoisOp, whoisTimer, whoisRaw, whoisResult, result>>
    /\ UNCHANGED <<classVars, batchVars>>

\* the resolver fails
DnsRejects ==
    /\ dnsOp = "pending"
    /\ dnsOp' = "done"
    /\ \E err \in DnsRejections : SettleDns(err)
    /\ UNCHANGED <<domain, pc, thrown, dnsTimer,
                   whoisOp, whoisTimer, whoisRaw, whoisResult, result>>
    /\ UNCHANGED <<classVars, batchVars>>

\* the DNS timer fires (it is never cleared)
DnsTimerFires ==
    /\ dnsTimer = "armed"
    /\ dnsTimer' = "fired"
    /\ SettleDns(timeoutError("DNS lookup timed out"))
    /\ UNCHANGED <<domain, pc, thrown, dnsOp,
                   whoisOp, whoisTimer, whoisRaw, whoisResult, result>>
    /\ UNCHANGED <<classVars, batchVars>>

\* the WHOIS lookup calls back with data
WhoisResolves ==
    /\ whoisOp = "pending"
    /\ whoisOp' = "done"
    /\ \E value \in LookupValues : SettleWhois(OkRaw, value)
    /\ UNCHANGED <<domain, pc, thrown, whoisTimer,
                   dnsOp, dnsTimer, dnsRaw, dnsResult, result>>
    /\ UNCHANGED <<classVars, batchVars>>

\* the WHOIS lookup calls back with an error
WhoisRejects ==
    /\ whoisOp = "pending"
    /\ whoisOp' = "done"
    /\ \E err \in WhoisRejections : SettleWhois(err, [type |-> "undefined", text |-> <<>>])
    /\ UNCHANGED <<domain, pc, thrown, whoisTimer,
                   dnsOp, dnsTimer, dnsRaw, dnsResult, result>>
    /\ UNCHANGED <<classVars, batchVars>>

\* the WHOIS timer fires; armed in the same turn as the DNS timer with the
\* longer delay, it fires after it
WhoisTimerFires ==
    /\ whoisTimer = "armed"
    /\ DNS_TIMEOUT_MS < WHOIS_TIMEOUT_MS => dnsTimer = "fired"
    /\ whoisTimer' = "fired"
    /\ SettleWhois(timeoutError("WHOIS lookup timed out"),
                   [type |-> "undefined", text |-> <<>>])
    /\ UNCHANGED <<domain, pc, thrown, whoisOp,
                   dnsOp, dnsTimer, dnsRaw, dnsResult, result>>
    /\ UNCHANGED <<classVars, batchVars>>

\* checkDomain resuming as soon as one probe has settled, as after a
\* Promise.race of the two probes
CheckDomainResumeEarly ==
    /\ pc = "awaiting"
    /\ DnsSettled \/ WhoisSettled
    /\ pc' = "resolved"
    /\ result' = checkResult(parseDomain(domain), dnsResult, whoisResult)
    /\ UNCHANGED <<domain, thrown, dnsOp, dnsTimer, dnsRaw, dnsResult,
                   whoisOp, whoisTimer, whoisRaw, whoisResult, settledFirst>>
    /\ UNCHANGED <<classVars, batchVars>>

\* Promise.all settles and checkDomain resumes: it rejects as soon as one
\* probe promise is rejected, and returns the verdict once both are fulfilled
CheckDomainResume ==
    /\ pc = "awaiting"
    /\ IF dnsResult.state = "rejected" \/ whoisResult.state = "rejected"
       THEN /\ pc' = "rejected"
            /\ thrown' = (IF dnsResult.state = "rejected"
                          THEN dnsResult.error ELSE whoisResult.error)
            /\ UNCHANGED result
       ELSE /\ dnsResult.state = "fulfilled"
            /\ whoisResult.state = "fulfilled"
            /\ pc' = "resolved"
            /\ result' = checkResult(parseDomain(domain), dnsResult, whoisResult)
            /\ UNCHANGED thrown
    /\ UNCHANGED <<domain, dnsOp, dnsTimer, dnsRaw, dnsResult,
                   whoisOp, whoisTimer, whoisRaw, whoisResult, settledFirst>>
    /\ UNCHANGED <<classVars, batchVars>>

CheckNext ==
    \/ CheckDomainCall
    \/ DnsResolves
    \/ DnsRejects
    \/ DnsTimerFires
    \/ WhoisResolves
    \/ WhoisRejects
    \/ WhoisTimerFires
    \/ CheckDomainResume

vars == <<checkVars, classVars, batchVars>>

Init == CheckInit

Next == CheckNext

Spec == Init /\ [][Next]_vars

(* ------------------- properties of one checkDomain call ---------------- *)

\* checkDomain has resolved with a result
Resolved == pc = "resolved"

\* the DNS query failed: it was rejected with something other than the clean
\* negative (name not found, no data), or its timer won the race
DnsFailed ==
    dnsRaw.kind = "err" /\ dnsRaw.code \notin {"ENOTFOUND", "ENODATA"}

\* the WHOIS lookup failed: it called back with an error or its timer won
WhoisFailed == whoisRaw.kind = "err"

\* the DNS probe errored: its outcome carries an error, which is what
\* checkDomain goes by
DnsErrored == DnsSettled /\ Truthy(dnsResult.error)

\* the WHOIS probe errored: its outcome carries an error
WhoisErrored == WhoisSettled /\ Truthy(whoisResult.error)

\* the argument contains the separator of a TLD suffix
HasDot(s) == \E i \in 1..Len(s) : s[i] = "."

C4_Case ==
    /\ Resolved
    /\ dnsResult.exists
    /\ whoisResult.available \/ WhoisErrored

C8_FailuresAbsorbed ==
    HasDot(domain) =>
        /\ pc # "rejected"
        /\ dnsRaw.kind = "err" => dnsResult.state = "fulfilled"
        /\ whoisRaw.kind = "err" => whoisResult.state = "fulfilled"
        /\ Resolved =>
              /\ result.available \in BOOLEAN
              /\ result.method \in {"dns", "whois", "both"}
              /\ result.confidence \in {"high", "medium", "low"}

\* C8 witness: a result after both the query and the lookup failed
C8_Witness ==
    /\ HasDot(domain)
    /\ Resolved
    /\ DnsFailed /\ WhoisFailed
    /\ dnsRaw.message # "DNS lookup timed out"

\* C9: for an argument without a dot checkDomain fails with the input-format
\* error, and neither probe is ever started.
C9_NoDotRejected ==
    ~HasDot(domain) =>
        /\ pc \in {"start", "rejected"}
        /\ pc = "rejected" => thrown = "Invalid domain format"
        /\ dnsOp = "idle" /\ dnsTimer = "idle"
        /\ whoisOp = "idle" /\ whoisTimer = "idle"

\* C9 witness: checkDomain("a") has failed
C9_Witness ==
    /\ domain = <<"a">>
    /\ pc = "rejected"
    /\ thrown = "Invalid domain format"

(* ----------------------- the WHOIS classifier alone -------------------- *)

\* checkDomain at rest
CheckIdle ==
    /\ domain = <<>>
    /\ pc = "start"
    /\ thrown = ""
    /\ dnsOp = "idle" /\ dnsTimer = "idle"
    /\ dnsRaw = NoRaw /\ dnsResult = PendingDns
    /\ whoisOp = "idle" /\ whoisTimer = "idle"
    /\ whoisRaw = NoRaw /\ whoisResult = PendingWhois
    /\ result = NoResult
    /\ settledFirst = "none"

ClassInit ==
    /\ CheckIdle
    /\ BatchIdle
    /\ lookupValue \in WhoisValues
    /\ whoisClass = PendingWhois

\* checkWhois classifies the body the lookup returned
Classify ==
    /\ whoisClass.state = "pending"
    /\ whoisClass' = checkWhois(OkRaw, lookupValue)
    /\ UNCHANGED lookupValue
    /\ UNCHANGED <<checkVars, batchVars>>

SpecWhois == ClassInit /\ [][Classify]_vars

\* some available-pattern matches the body that was classified
IsAvailable == some(availablePatterns, whoisDataOf(lookupValue))

\* some taken-pattern matches the body that was classified
IsTaken == some(takenPatterns, whoisDataOf(lookupValue))

\* C7: the classification of a WHOIS body depends on two facts only: it is
\* available = true exactly when an available-pattern matches and no
\* taken-pattern does; a taken-pattern makes it available = false with or
\* without an available-pattern; with no match at all it is available = false
\* with the ambiguous details; and none of these outcomes carries an error.
C7_WhoisClassification ==
    whoisClass.state # "pending" =>
        /\ whoisClass.state = "fulfilled"
        /\ whoisClass.error = UNDEF
        /\ whoisClass.available = (IsAvailable /\ ~IsTaken)
        /\ IsTaken =>
              /\ whoisClass.available = FALSE
              /\ whoisClass.details = "WHOIS shows domain is registered"
        /\ (~IsAvailable /\ ~IsTaken) =>
              /\ whoisClass.available = FALSE
              /\ whoisClass.details = "WHOIS result ambiguous, assuming taken"

\* C7 witness: "No match for domain" followed by "Registrar: Example Corp"
\* matches a pattern of each set and is classified as taken
C7_Witness ==
    /\ lookupValue.text = << <<"No", "match", "for", "domain">>,
                             <<"Registrar:", "Example", "Corp">> >>
    /\ IsAvailable /\ IsTaken
    /\ whoisClass.state = "fulfilled"
    /\ whoisClass.available = FALSE

(* --------------------------- checkAlternativeTlds ---------------------- *)

\* program constants: the default window size and the pacing delay
DEFAULT_CONCURRENCY == 3
BATCH_DELAY_MS == 1500

\* the TLD strings of the batch model
Tlds == { <<"c", "o", "m">>, <<"n", "e", "t">>, <<"o", "r", "g">> }

\* the domainName arguments: a bare name, and a name with a TLD to strip
BatchNames == { <<"a">>, <<"A", ".", "a">> }

\* the concurrency options: the option is not validated, so zero and a
\* negative number are among them
Concurrencies == -1..MaxConc

\* the loop index as the model keeps it: every index below -tlds.length
\* behaves like -tlds.length (it passes the loop test, and slice turns it
\* into 0), so the model keeps the largest of them
loopIndex(next) == IF next < -Len(bTlds) THEN -Len(bTlds) ELSE next

\* a count of loop events, which stops one above the longest list's length;
\* only a loop that does not advance reaches that
MaxCount == MaxTlds + 1
countUp(k) == IF k < MaxCount THEN k + 1 ELSE k

\* what the two probes of one check can end with: nothing found by either
\* probe, and both probes failed
ProbeOutcomes ==
    { [dns |-> checkDns(ErrRaw("ENOTFOUND", "queryA ENOTFOUND")),
       whois |-> checkWhois(OkRaw,
           [type |-> "string", text |-> << <<"No", "match", "for", "domain">> >>])],
      [dns |-> checkDns(ErrRaw("ESERVFAIL", "queryA ESERVFAIL")),
       whois |-> checkWhois(ErrRaw("ECONNREFUSED", "connect ECONNREFUSED"),
           [type |-> "undefined", text |-> <<>>])] }

\* the probes of a check that has not settled
NoProbes == [dns |-> PendingDns, whois |-> PendingWhois]

\* Array.prototype.slice: the normalised start index (0-based)
sliceFrom(len, start) ==
    IF start < 0 THEN (IF len + start < 0 THEN 0 ELSE len + start)
    ELSE IF start > len THEN len ELSE start

\* a slice that ignores its end and runs to the end of the sequence
sliceToEnd(seq, start, end) ==
    SubSeq(seq, sliceFrom(Len(seq), start) + 1, Len(seq))

\* Array.prototype.slice(start, end) of a sequence, 0-based as in the code
slice(seq, start, end) ==
    LET from == sliceFrom(Len(seq), start)
        to == sliceFrom(Len(seq), end)
    IN  IF from < to THEN SubSeq(seq, from + 1, to) ELSE <<>>

\* domainName.includes(".") ? parseDomain(domainName).name : domainName
batchName(domainName) ==
    IF HasDot(domainName) THEN parseDomain(domainName).name ELSE domainName

\* `${name}.${tld}`
candidate(name, tld) == name \o <<".">> \o tld

\* a checkDomain promise of a batch
PendingSlot == [state |-> "pending", value |-> NoResult]

\* results.push(...batchResults) turned into an unshift
pushAllFront(results, batchResults) == batchResults \o results

\* results.push(...batchResults)
pushAll(results, batchResults) == results \o batchResults

BatchInit ==
    /\ CheckIdle
    /\ ClassIdle
    /\ bName \in BatchNames
    /\ bTlds \in SeqsUpTo(Tlds, MaxTlds)
    /\ bConc \in Concurrencies
    /\ bPc = "call" /\ bI = 0 /\ bStart = 0
    /\ bSlots = <<>>
    /\ bProbes = [k \in 1..Len(bTlds) |-> NoProbes]
    /\ bResults = <<>>
    /\ bWindows = 0 /\ bSleeps = 0

\* the loop test with i = next, and the body up to its await: the batch is
\* cut out and a checkDomain call is started for each of its TLDs
EnterLoop(next) ==
    /\ bI' = loopIndex(next)
    /\ IF next < Len(bTlds)
       THEN LET batch == slice(bTlds, next, next + bConc)
            IN  /\ bPc' = "window"
                /\ bStart' = sliceFrom(Len(bTlds), next)
                /\ bSlots' = [k \in 1..Len(batch) |-> PendingSlot]
                /\ bWindows' = countUp(bWindows)
       ELSE /\ bPc' = "done"
            /\ bSlots' = <<>>
            /\ UNCHANGED <<bStart, bWindows>>

\* checkAlternativeTlds from the call to the first await (or to its return
\* for an empty list)
BatchCall ==
    /\ bPc = "call"
    /\ EnterLoop(0)
    /\ UNCHANGED <<bName, bTlds, bConc, bProbes, bResults, bSleeps>>
    /\ UNCHANGED <<checkVars, classVars>>

\* one checkDomain call of the current batch settles: its probes ended with
\* probes, and it resolves with the verdict for them (or rejects on a
\* candidate that does not parse)
CheckSettles ==
    /\ bPc = "window"
    /\ \E k \in 1..Len(bSlots), probes \in ProbeOutcomes :
          /\ bSlots[k].state = "pending"
          /\ LET p == parseDomain(candidate(batchName(bName), bTlds[bStart + k]))
             IN  /\ bSlots' = [bSlots EXCEPT ![k] =
                        IF p.ok
                        THEN [state |-> "fulfilled",
                              value |-> checkResult(p, probes.dns, probes.whois)]
                        ELSE [state |-> "rejected", value |-> NoResult]]
                 /\ bProbes' = [bProbes EXCEPT ![bStart + k] = probes]
    /\ UNCHANGED <<bName, bTlds, bConc, bPc, bI, bStart, bResults,
                   bWindows, bSleeps>>
    /\ UNCHANGED <<checkVars, classVars>>

\* Promise.all of the batch settles and the loop body resumes: a rejected
\* check rejects the whole call; otherwise the batch's results are appended
\* in batch order, and the body either sleeps or goes round the loop
BatchSettles ==
    /\ bPc = "window"
    /\ IF \E k \in 1..Len(bSlots) : bSlots[k].state = "rejected"
       THEN /\ bPc' = "rejected"
            /\ UNCHANGED <<bI, bStart, bSlots, bResults, bWindows, bSleeps>>
       ELSE /\ \A k \in 1..Len(bSlots) : bSlots[k].state = "fulfilled"
            /\ bResults' =
                  pushAll(bResults, [k \in 1..Len(bSlots) |-> bSlots[k].value])
            /\ IF bI + bConc < Len(bTlds)
               THEN /\ bPc' = "sleep"
                    /\ bSleeps' = countUp(bSleeps)
                    /\ bSlots' = <<>>
                    /\ UNCHANGED <<bI, bStart, bWindows>>
               ELSE /\ EnterLoop(bI + bConc)
                    /\ UNCHANGED bSleeps
    /\ UNCHANGED <<bName, bTlds, bConc, bProbes>>
    /\ UNCHANGED <<checkVars, classVars>>

\* the timer of sleep(batchDelay) fires and the loop goes round
SleepDone ==
    /\ bPc = "sleep"
    /\ EnterLoop(bI + bConc)
    /\ UNCHANGED <<bName, bTlds, bConc, bProbes, bResults, bSleeps>>
    /\ UNCHANGED <<checkVars, classVars>>

BatchNext ==
    \/ BatchCall
    \/ CheckSettles
    \/ BatchSettles
    \/ SleepDone

SpecBatch == BatchInit /\ [][BatchNext]_vars

\* the verdict for name.tlds[i], given what the probes of its check ended with
VerdictFor(i) ==
    checkResult(parseDomain(candidate(batchName(bName), bTlds[i])),
                bProbes[i].dns, bProbes[i].whois)

\* C10: checkAlternativeTlds never rejects because a TLD's probes failed, and
\* when it resolves the results are one per requested TLD, the i-th being the
\* verdict for name.tlds[i] (for the domain lower-case name, dot, TLD),
\* whatever the order in which the checks of a batch completed.
C10_OneResultPerTldInOrder ==
    /\ bPc # "rejected"
    /\ bPc = "done" =>
          /\ Len(bResults) = Len(bTlds)
          /\ \A i \in 1..Len(bTlds) :
                /\ bProbes[i] \in ProbeOutcomes
                /\ bResults[i] = VerdictFor(i)
                /\ bResults[i].domain = <<"a", ".">> \o bTlds[i]
                /\ bResults[i].tld = bTlds[i]

\* C10 witness: "a" against com, net, org has resolved; the probes of net
\* failed, those of com and org did not, and the three checks were in one
\* batch
C10_Witness ==
    /\ bPc = "done"
    /\ bTlds = << <<"c", "o", "m">>, <<"n", "e", "t">>, <<"o", "r", "g">> >>
    /\ bConc = DEFAULT_CONCURRENCY
    /\ Len(bResults) = 3
    /\ bResults[2].confidence = "low"
    /\ bResults[1].confidence = "high" /\ bResults[1].available = TRUE
    /\ bResults[3].confidence = "high" /\ bResults[3].available = TRUE

(* ------------- checkAlternativeTlds of the TypeScript source ----------- *)

\* Promise.all of the batch settles in the TypeScript source's loop: the
\* results are appended and the loop goes round at once; there is no pause
BatchSettlesTs ==
    /\ bPc = "window"
    /\ IF \E k \in 1..Len(bSlots) : bSlots[k].state = "rejected"
       THEN /\ bPc' = "rejected"
            /\ UNCHANGED <<bI, bStart, bSlots, bResults, bWindows>>
       ELSE /\ \A k \in 1..Len(bSlots) : bSlots[k].state = "fulfilled"
            /\ bResults' =
                  pushAll(bResults, [k \in 1..Len(bSlots) |-> bSlots[k].value])
            /\ EnterLoop(bI + bConc)
    /\ UNCHANGED <<bName, bTlds, bConc, bProbes, bSleeps>>
    /\ UNCHANGED <<checkVars, classVars>>

BatchNextTs ==
    \/ BatchCall
    \/ CheckSettles
    \/ BatchSettlesTs

SpecBatchTs == BatchInit /\ [][BatchNextTs]_vars

(* -------------------------- windows and pacing -------------------------- *)

\* ceil(n / c) for c >= 1
ceilDiv(n, c) == (n + c - 1) \div c

\* the smaller of two numbers
Min(a, b) == IF a < b THEN a ELSE b

\* C11: for n TLDs and a window size c >= 1 the call runs ceil(n/c) windows,
\* the k-th of c TLDs or of what is left of the list, and pauses once after
\* every window but the last: k - 1 pauses have been made while the k-th
\* window runs, and when the call resolves there were ceil(n/c) windows and
\* ceil(n/c) - 1 pauses, none when n <= c.
C11_WindowsAndDelays ==
    bConc >= 1 =>
        LET n == Len(bTlds)
            c == bConc
        IN  /\ bPc = "window" =>
                  /\ Len(bSlots) = Min(c, n - c * (bWindows - 1))
                  /\ bSleeps = bWindows - 1
            /\ bPc = "sleep" =>
                  /\ bSleeps = bWindows
                  /\ bWindows < ceilDiv(n, c)
            /\ bPc = "done" =>
                  /\ bWindows = ceilDiv(n, c)
                  /\ bSleeps = (IF n <= c THEN 0 ELSE ceilDiv(n, c) - 1)

(* ------------------------- checks in flight ---------------------------- *)

\* the checks of the call that have been started and have not settled
InFlight == { k \in 1..Len(bSlots) : bSlots[k].state = "pending" }

\* this step starts a window
WindowStarts == bWindows' # bWindows

\* C12: with a window size c >= 1, at most c checks are in flight at any
\* time and none during the pause; a step that starts a window starts all
\* its checks, at most c of them, and is taken only when no check is in
\* flight, as the first thing of the call or when the pause has elapsed,
\* never straight from the window before.
C12_AtMostWindowInFlight ==
    /\ [](bConc >= 1 =>
            /\ Cardinality(InFlight) <= bConc
            /\ bPc = "sleep" => InFlight = {})
    /\ [][(bConc >= 1 /\ WindowStarts) =>
            /\ InFlight = {}
            /\ bPc \in {"call", "sleep"}
            /\ Len(bSlots') <= bConc
            /\ \A k \in 1..Len(bSlots') : bSlots'[k].state = "pending"]_vars

\* C12 witness: the second window of a call with c = 2 has been started
\* after the pause, one of the two checks of the first window having failed,
\* and its check is in flight
C12_Witness ==
    /\ bPc = "window"
    /\ bConc = 2
    /\ bWindows = 2 /\ bSleeps = 1
    /\ Len(bResults) = 2
    /\ bResults[1].confidence = "low"
    /\ Cardinality(InFlight) = 1

(* ------------------------ probes against their timers ------------------ *)

\* one checkDomain call under the event loop's scheduling: the continuation
\* of a settled promise runs, and an armed timer fires when its delay is
\* over; whether the resolver or the WHOIS server ever answers is left open
FairSpec ==
    /\ Spec
    /\ WF_vars(CheckDomainCall)
    /\ WF_vars(DnsTimerFires)
    /\ WF_vars(WhoisTimerFires)
    /\ WF_vars(CheckDomainResume)

\* checkDns of the TypeScript source, from the settled query on
checkDnsTs(raw) ==
    IF raw.kind = "ok"
    THEN [state |-> "fulfilled", exists |-> TRUE, error |-> UNDEF]
    ELSE IF raw.code = "ENOTFOUND" \/ raw.code = "ENODATA"
    THEN [state |-> "fulfilled", exists |-> FALSE, error |-> UNDEF]
    ELSE [state |-> "fulfilled", exists |-> FALSE, error |-> raw.message]

\* checkDomain of the TypeScript source up to its await: the probes await
\* the query and the lookup themselves, and no timer is armed
CheckDomainCallTs ==
    /\ pc = "start"
    /\ IF parseDomain(domain).ok
       THEN /\ pc' = "awaiting"
            /\ dnsOp' = "pending"
            /\ whoisOp' = "pending"
            /\ UNCHANGED thrown
       ELSE /\ pc' = "rejected"
            /\ thrown' = "Invalid domain format"
            /\ UNCHANGED <<dnsOp, whoisOp>>
    /\ UNCHANGED <<domain, dnsTimer, whoisTimer,
                   dnsRaw, dnsResult, whoisRaw, whoisResult, result,
                   settledFirst>>
    /\ UNCHANGED <<classVars, batchVars>>

\* the DNS query settles with raw and checkDns resumes (TypeScript source)
SettleDnsTs(raw) ==
    /\ dnsRaw' = raw /\ dnsResult' = checkDnsTs(raw)
    /\ settledFirst' = (IF WhoisSettled THEN settledFirst ELSE "dns")

\* the resolver answers with records (TypeScript source)
DnsResolvesTs ==
    /\ dnsOp = "pending"
    /\ dnsOp' = "done"
    /\ SettleDnsTs(OkRaw)
    /\ UNCHANGED <<domain, pc, thrown, dnsTimer,
                   whoisOp, whoisTimer, whoisRaw, whoisResult, result>>
    /\ UNCHANGED <<classVars, batchVars>>

\* the resolver fails (TypeScript source)
DnsRejectsTs ==
    /\ dnsOp = "pending"
    /\ dnsOp' = "done"
    /\ \E err \in DnsRejections : SettleDnsTs(err)
    /\ UNCHANGED <<domain, pc, thrown, dnsTimer,
                   whoisOp, whoisTimer, whoisRaw, whoisResult, result>>
    /\ UNCHANGED <<classVars, batchVars>>

CheckNextTs ==
    \/ CheckDomainCallTs
    \/ DnsResolvesTs
    \/ DnsRejectsTs
    \/ WhoisResolves
    \/ WhoisRejects
    \/ CheckDomainResume

SpecTs == CheckInit /\ [][CheckNextTs]_vars

\* the TypeScript source's checkDomain under the event loop's scheduling
FairSpecTs ==
    /\ SpecTs
    /\ WF_vars(CheckDomainCallTs)
    /\ WF_vars(CheckDomainResume)

\* the outcome of a DNS probe whose timer won the race
DnsTimedOut == [state |-> "fulfilled", exists |-> FALSE, error |-> "timeout"]

\* the outcome of a WHOIS probe whose timer won the race
WhoisTimedOut ==
    [state |-> "fulfilled", available |-> FALSE, details |-> UNDEF,
     error |-> "WHOIS lookup timed out"]

\* C13: a checkDomain call on a well-formed domain eventually resolves,
\* whether or not the DNS query and the WHOIS lookup ever complete; a timer
\* that fires before its operation has completed settles the probe with the
\* timeout error; and once a probe has settled, nothing that happens later
\* (the operation completing after the timer, or the timer after the
\* operation) changes its outcome.
C13_ResolvesDespiteHangingProbes ==
    /\ [](parseDomain(domain).ok => <>(pc = "resolved"))
    /\ [][(dnsTimer = "armed" /\ dnsTimer' = "fired" /\ dnsOp = "pending")
            => dnsResult' = DnsTimedOut]_vars
    /\ [][(whoisTimer = "armed" /\ whoisTimer' = "fired" /\ whoisOp = "pending")
            => whoisResult' = WhoisTimedOut]_vars
    /\ [][DnsSettled => dnsResult' = dnsResult]_vars
    /\ [][WhoisSettled => whoisResult' = whoisResult]_vars

(* --------------------------- the two probes joined --------------------- *)

\* C14: in one checkDomain call the two probes are started in the same
\* step, before the call waits for either (neither operation is started
\* without the other, and both are started whenever the call waits or a
\* probe has settled); a result exists only when both probes have settled;
\* and the result is the verdict for the two outcomes, whichever probe
\* settled first.
C14_ProbesJoined ==
    /\ (dnsOp = "idle") = (whoisOp = "idle")
    /\ (pc = "awaiting" \/ DnsSettled \/ WhoisSettled) =>
          (dnsOp # "idle" /\ whoisOp # "idle")
    /\ (Resolved \/ result # NoResult) =>
          /\ DnsSettled /\ WhoisSettled
          /\ settledFirst \in {"dns", "whois"}
          /\ result = [domain |-> fullDomain(parseDomain(domain)),
                       tld |-> parseDomain(domain).tld]
                      @@ reconcile(dnsResult, whoisResult)

\* C14 witness: the WHOIS probe, second in the Promise.all list, settled
\* first with "available", the DNS probe after it with a record, and the
\* call has resolved with the DNS-record verdict
C14_Witness ==
    /\ Resolved
    /\ settledFirst = "whois"
    /\ dnsResult.exists
    /\ whoisResult.available
    /\ result.available = FALSE /\ result.confidence = "high"

(* ---------------------- DNS failures and clean negatives --------------- *)

\* C15: when the call has resolved and the DNS query had failed with
\* anything but name-not-found or no-data (its timer winning the race and an
\* error with an empty message included), checkDns has recorded an error
\* and the result goes by the DNS probe having errored: method whois when
\* the WHOIS probe did not error, confidence low when it did.
C15_DnsFailureKeptDistinct ==
    (Resolved /\ DnsFailed) =>
        /\ Truthy(dnsResult.error)
        /\ ~WhoisErrored => result.method = "whois"
        /\ WhoisErrored => result.confidence = "low"

(* -------------------- the fallback of the both-succeeded branch -------- *)

\* the outcomes checkDomain takes for a DNS probe that succeeded: no truthy
\* error, a record or none
SucceededDns ==
    [state : {"fulfilled"}, exists : BOOLEAN, error : {UNDEF, ""}]

\* the outcomes checkDomain takes for a WHOIS probe that succeeded: no
\* truthy error, either verdict, any of the details checkWhois writes
SucceededWhois ==
    [state : {"fulfilled"}, available : BOOLEAN,
     details : {UNDEF, "WHOIS shows domain is not registered",
                "WHOIS shows domain is registered",
                "WHOIS result ambiguous, assuming taken"},
     error : {UNDEF, ""}]

\* the verdict of the final else of the both-succeeded branch
IsFallback(v) ==
    v.available = TRUE /\ v.confidence = "medium" /\ v.method = "both"

\* C16 as stated: for a call that waits for its probes there is a pair of
\* outcomes, DNS succeeded with no record and WHOIS succeeded, with which it
\* returns available = true, confidence = medium, method = both.
C16_Original ==
    pc = "awaiting" =>
        \E d \in SucceededDns, w \in SucceededWhois :
            ~d.exists /\ IsFallback(checkResult(parseDomain(domain), d, w))

\* C16 amended: no pair of outcomes of two succeeded probes gives
\* available = true, confidence = medium, method = both, and no call
\* resolves with it; no record next to a succeeded WHOIS probe gives
\* available = true with confidence high when WHOIS said available and
\* available = false with confidence medium when it did not.
C16_Amended ==
    /\ \A d \in SucceededDns, w \in SucceededWhois :
          /\ ~IsFallback(reconcile(d, w))
          /\ ~d.exists =>
                LET v == reconcile(d, w)
                IN  /\ v.method = "both"
                    /\ v.available = w.available
                    /\ v.confidence = (IF w.available THEN "high" ELSE "medium")
    /\ Resolved => ~IsFallback(result)

\* C16 witness: a call has resolved for no record next to an available
\* WHOIS verdict, the only outcomes that could reach the final else, and
\* the confidence is high
C16_Witness ==
    /\ Resolved
    /\ dnsResult \in SucceededDns /\ ~dnsResult.exists
    /\ whoisResult \in SucceededWhois /\ whoisResult.available
    /\ result.available = TRUE
    /\ result.method = "both"
    /\ result.confidence = "high"

(* ------------------------------ termination ---------------------------- *)

\* one checkAlternativeTlds call under the event loop's scheduling: the call
\* runs to its first await, the continuation of a settled Promise.all runs,
\* and the timer of sleep fires; whether a domain check settles is left open
FairSpecBatch ==
    /\ SpecBatch
    /\ WF_vars(BatchCall)
    /\ WF_vars(BatchSettles)
    /\ WF_vars(SleepDone)

\* every domain check of the call settles
ChecksSettle == [](InFlight # {} => <>(InFlight = {}))

\* C17: whatever the TLD list and the concurrency option, zero and negative
\* values included, the promise of checkAlternativeTlds eventually settles,
\* provided every domain check of the call settles.
C17_BatchTerminates == ChecksSettle => <>(bPc \in {"done", "rejected"})

====
